---- MODULE Spec2Model ----
(***************************************************************************)
(* A model of abc_merfish_analysis: diversity_metrics.py (statistic        *)
(* formulas, region metric engine, local metric engine) and                *)
(* diversity_plots.py (proportion aggregation, stacked bar plot).          *)
(*                                                                         *)
(* Numbers.  The source computes in binary floating point.  The model      *)
(* keeps every value exact:                                                *)
(*   kind "num"  : the rational num / den            (scale = 1)           *)
(*   kind "log2" : log2(num / den) / scale                                 *)
(*   kind "inf"  : numpy's inf (a float division by 0.0, warning only)     *)
(*   kind "nan"  : numpy's nan                                             *)
(*   kind "error": the call raised (err names the exception)               *)
(* For the sample sizes of the model the exact comparisons below agree     *)
(* with the float comparisons of the source: two different rationals with  *)
(* denominators this small never round to the same double.                 *)
(***************************************************************************)
EXTENDS Integers, Sequences, FiniteSets, TLC

\* ------------------------------------------------------------------ bounds
\* Longest categorical sample handed to a statistic formula.
MaxSample == 6

\* Most rows of an observation table of the region and proportion engines.
MaxCells == 3

\* Most cells of an observation table of the local metric engine.
MaxLocalCells == 2

\* Largest n_neighbors tried.
MaxNeighbors == 2

\* Worker processes of the pool (Pool() takes os.cpu_count()).
NWorkers == 2

\* Most rows of an observation table handed to the bar plot.
MaxPlotCells == 2

\* ------------------------------------------------------------- taxonomy
\* The taxonomy is hierarchical: a cluster belongs to one supertype, a
\* supertype to one subclass.  An observation row stores its cluster; the
\* coarser labels follow from it.
Clusters == {"c1", "c2", "c3"}

SupertypeOf(c) == IF c = "c3" THEN "s2" ELSE "s1"

SubclassOf(c) == "k1"

\* Every label a taxonomy column can hold (the categorical universe).
CustomOf(c) == IF c = "c1" THEN "u1" ELSE "u2"

Universe == Clusters \cup {SupertypeOf(c) : c \in Clusters}
                     \cup {SubclassOf(c) : c \in Clusters}
                     \cup {CustomOf(c) : c \in Clusters}

\* ------------------------------------------------------------- arithmetic
RECURSIVE Pow(_, _)
Pow(b, e) == IF e = 0 THEN 1 ELSE b * Pow(b, e - 1)

RECURSIVE SumOver(_, _)
\* Sum of f[c] over the finite set S.
SumOver(f, S) ==
    IF S = {} THEN 0
    ELSE LET c == CHOOSE d \in S : TRUE IN f[c] + SumOver(f, S \ {c})

RECURSIVE ProdOver(_, _)
\* Product of f[c] over the finite set S.
ProdOver(f, S) ==
    IF S = {} THEN 1
    ELSE LET c == CHOOSE d \in S : TRUE IN f[c] * ProdOver(f, S \ {c})

\* ------------------------------------------------------------- values
Num(n, d) == [kind |-> "num", num |-> n, den |-> d, scale |-> 1, err |-> ""]

Log2Val(n, d, s) == [kind |-> "log2", num |-> n, den |-> d, scale |-> s, err |-> ""]

Inf == [kind |-> "inf", num |-> 1, den |-> 0, scale |-> 1, err |-> ""]

Raised(e) == [kind |-> "error", num |-> 0, den |-> 0, scale |-> 1, err |-> e]

NoValue == [kind |-> "none", num |-> 0, den |-> 0, scale |-> 1, err |-> ""]

NaN == [kind |-> "nan", num |-> 0, den |-> 0, scale |-> 1, err |-> ""]

\* ------------------------------------------------ statistic formulas
\* pd.Series.unique(): the distinct labels of the sample.
Unique(x) == {x[i] : i \in DOMAIN x}

\* pd.Series.value_counts() of a categorical series: one count per category
\* of the universe, zero for a category the sample does not hold.
ValueCounts(x) == [c \in Universe |-> Cardinality({i \in DOMAIN x : x[i] = c})]

count_unique(x) == Num(Cardinality(Unique(x)), 1)

\* len(x.unique())/len(x) divides two Python ints: 0/0 raises.
CountUniqueNormFloat(x) ==
    IF Len(x) = 0 THEN NaN
    ELSE Num(Cardinality(Unique(x)), Len(x))

count_unique_norm(x) ==
    IF Len(x) = 0 THEN Raised("ZeroDivisionError")
    ELSE Num(Cardinality(Unique(x)), Len(x))

count_gt5(x) ==
    LET vc == ValueCounts(x)
    IN  Num(Cardinality({c \in Universe : vc[c] > 5}), 1)

\* 1/np.sum((counts[counts>0]/len(x))**2) = len(x)^2 / sum(counts^2).
\* On an empty sample the sum is numpy's 0.0 and 1/0.0 is inf.
SimpsonNoSquare(x) ==
    LET vc  == ValueCounts(x)
        pos == {c \in Universe : vc[c] > 0}
    IN  IF Len(x) = 0 THEN Inf
        ELSE Num(Len(x), SumOver(vc, pos))

inverse_simpsons_index(x) ==
    LET vc  == ValueCounts(x)
        pos == {c \in Universe : vc[c] > 0}
        sq  == [c \in Universe |-> vc[c] * vc[c]]
    IN  IF Len(x) = 0 THEN Inf
        ELSE Num(Len(x) * Len(x), SumOver(sq, pos))

\* p = counts[counts>0] / counts.sum();  H = -sum(p * log2(p)).
\* With N = counts.sum():  N * H = log2( N^N / prod(c^c) ), kept exactly as
\* Log2Val(N^N, prod(c^c), N).  An empty sample sums nothing: H = 0.
ShannonNoNegation(x) ==
    LET vc  == ValueCounts(x)
        pos == {c \in Universe : vc[c] > 0}
        n   == SumOver(vc, pos)
        cc  == [c \in Universe |-> Pow(vc[c], vc[c])]
    IN  IF n = 0 THEN Num(0, 1)
        ELSE Log2Val(ProdOver(cc, pos), Pow(n, n), n)

shannon_index(x) ==
    LET vc  == ValueCounts(x)
        pos == {c \in Universe : vc[c] > 0}
        n   == SumOver(vc, pos)
        cc  == [c \in Universe |-> Pow(vc[c], vc[c])]
    IN  IF n = 0 THEN Num(0, 1)
        ELSE Log2Val(Pow(n, n), ProdOver(cc, pos), n)

Formulas == {"count_unique", "count_unique_norm", "count_gt5",
             "inverse_simpsons_index", "shannon_index"}

\* Calling the formula named f on the sample x.
Apply(f, x) ==
    CASE f = "count_unique"           -> count_unique(x)
      [] f = "count_unique_norm"      -> count_unique_norm(x)
      [] f = "count_gt5"              -> count_gt5(x)
      [] f = "inverse_simpsons_index" -> inverse_simpsons_index(x)
      [] f = "shannon_index"          -> shannon_index(x)

\* ------------------------------------------------------------- tables
\* An observation row: its CCF region and its cluster.  The region column
\* is categorical, Regions its categories.  The coarser
\* taxonomy columns, and a user column "custom" the atlas does not know,
\* follow from the cluster.
Regions == {"A", "B", "unassigned"}

\* The order in which pandas sorts the group keys (lexicographic).
RegionOrder == <<"A", "B", "unassigned">>

CategoryOrder == <<"c1", "c2", "c3", "k1", "s1", "s2", "u1", "u2">>

Rows == [region : Regions, cluster : Clusters]

\* obs[level] of one row.
LevelLabel(row, level) ==
    CASE level = "cluster"   -> row.cluster
      [] level = "supertype" -> SupertypeOf(row.cluster)
      [] level = "subclass"  -> SubclassOf(row.cluster)
      [] level = "custom"    -> CustomOf(row.cluster)

\* The column obs[level] as a sample.
Column(obs, level) == [i \in DOMAIN obs |-> LevelLabel(obs[i], level)]

Range(s) == {s[i] : i \in DOMAIN s}

\* A data frame: row labels in order, column names in order, the cells.
\* error is the exception's name when the call that builds the frame raised.
Table(idx, cols, cells) ==
    [error |-> "", index |-> idx, columns |-> cols, data |-> cells]

Failure(e) == [error |-> e, index |-> <<>>, columns |-> <<>>, data |-> <<>>]

NoTable == Failure("not called")

\* diversity_metrics.py:59 and :61, the default arguments.
DefaultExclude == {"unassigned", "TH-unassigned"}

DefaultLevels == <<"cluster", "supertype", "subclass">>

\* v / d for a value v and a norm d = Num(k, 1), k > 0.
Divide(v, d) ==
    CASE v.kind = "num"  -> Num(v.num, v.den * d.num)
      [] v.kind = "log2" -> Log2Val(v.num, v.den, v.scale * d.num)
      [] OTHER           -> v

\* ------------------------------------------------ region metric engine
\* obs.loc[~obs[ccf_label].isin(exclude)]
KeepAllRows(obs, exclude) == obs

FilterExcluded(obs, exclude) ==
    SelectSeq(obs, LAMBDA row : row.region \notin exclude)

\* The keys of groupby(ccf_label, observed=True): the regions that occur
\* in the rows, each once, in sorted order.
GroupKeys(rows) ==
    SelectSeq(RegionOrder, LAMBDA r : \E i \in DOMAIN rows : rows[i].region = r)

\* The rows of one group.
Group(rows, r) == SelectSeq(rows, LAMBDA row : row.region = r)

\* A column name "_".join([metric_name, level]), kept as the pair.
ColName(metric_name, level) == <<metric_name, level>>

get_region_metric(obs, function, metric_name, exclude, norm_fcn, levels) ==
    LET rows == FilterExcluded(obs, exclude)
        keys == GroupKeys(rows)
        agg  == [r \in Range(keys) |->
                   [l \in Range(levels) |-> Apply(function, Column(Group(rows, r), l))]]
        bad  == {<<r, l>> \in Range(keys) \X Range(levels) : agg[r][l].kind = "error"}
        norm == [l \in Range(levels) |->
                   IF norm_fcn = {} THEN Num(1, 1)
                   ELSE Apply(CHOOSE f \in norm_fcn : TRUE, Column(obs, l))]
        cols == [i \in DOMAIN levels |-> ColName(metric_name, levels[i])]
    IN  IF bad /= {}
        THEN LET b == CHOOSE p \in bad : TRUE IN Failure(agg[b[1]][b[2]].err)
        \* Line 94 with no group left: the aggregate of zero groups keeps the
        \* category dtype of the taxonomy columns, which cannot be divided.
        ELSE IF keys = <<>> /\ norm_fcn /= {}
        THEN Failure("TypeError")
        ELSE Table(keys, cols,
                   [r \in Range(keys) |->
                      [c \in Range(cols) |->
                         IF norm_fcn = {} THEN agg[r][c[2]]
                         ELSE Divide(agg[r][c[2]], norm[c[2]])]])

\* pd.concat(frames, axis=1): the union of the row labels (sorted when the
\* indexes differ), the columns side by side, nan where a frame has no row.
RECURSIVE ConcatCols(_)
ConcatCols(frames) ==
    IF frames = <<>> THEN <<>> ELSE Head(frames).columns \o ConcatCols(Tail(frames))

Concat(frames) ==
    LET labels == UNION {Range(frames[i].index) : i \in DOMAIN frames}
        idx    == IF \A i \in DOMAIN frames : frames[i].index = frames[1].index
                  THEN frames[1].index
                  ELSE SelectSeq(RegionOrder, LAMBDA r : r \in labels)
        cols   == ConcatCols(frames)
        owner(c) == CHOOSE i \in DOMAIN frames : c \in Range(frames[i].columns)
    IN  Table(idx, cols,
              [r \in labels |->
                 [c \in Range(cols) |->
                    IF r \in Range(frames[owner(c)].index)
                    THEN frames[owner(c)].data[r][c]
                    ELSE NaN]])

\* obs[ccf_label].value_counts()[r]
RegionCount(obs, r) == Cardinality({i \in DOMAIN obs : obs[i].region = r})

\* obs[ccf_label].value_counts().index on the categorical region column:
\* every category of the column, those that do not occur with count 0, the
\* most frequent first, equally frequent ones in the order of the categories.
RegionValueCounts(obs) ==
    LET pos(r) == CHOOSE i \in DOMAIN RegionOrder : RegionOrder[i] = r
        before(a, b) == \/ RegionCount(obs, a) > RegionCount(obs, b)
                        \/ (RegionCount(obs, a) = RegionCount(obs, b)
                              /\ pos(a) < pos(b))
    IN  [q \in 1..Cardinality(Regions) |->
            CHOOSE r \in Regions : Cardinality({t \in Regions : before(t, r)}) = q - 1]

calculate_diversity_metrics(obs) ==
    LET E == DefaultExclude
        L == DefaultLevels
        frames == <<
            get_region_metric(obs, "count_unique", "count", E, {}, L),
            get_region_metric(obs, "count_unique", "frac", E, {"count_unique"}, L),
            get_region_metric(obs, "count_unique_norm", "count_norm2cells", E, {}, L),
            get_region_metric(obs, "count_gt5", "count_gt5", E, {}, L),
            get_region_metric(obs, "count_gt5", "frac_gt5", E, {"count_unique"}, L),
            get_region_metric(obs, "inverse_simpsons_index", "inverse_simpsons", E, {}, L),
            get_region_metric(obs, "shannon_index", "shannon_index", E, {}, L) >>
        failed == {i \in DOMAIN frames : frames[i].error /= ""}
        df == Concat(frames)
        cc == ColName("count_cells", "")
        \* Line 50: the column is aligned to the frame's index; a frame
        \* without rows takes the index of a non-empty assigned Series
        \* (DataFrame._ensure_valid_index), its other columns are nan there.
        idx == IF df.index = <<>> /\ Len(RegionValueCounts(obs)) > 0
               THEN RegionValueCounts(obs)
               ELSE df.index
    IN  IF failed /= {}
        THEN Failure(frames[CHOOSE i \in failed : \A j \in failed : i <= j].error)
        ELSE
        Table(idx, Append(df.columns, cc),
              [r \in Range(idx) |->
                 [c \in Range(df.columns) \cup {cc} |->
                    IF c = cc THEN Num(RegionCount(obs, r), 1)
                    ELSE IF r \in Range(df.index) THEN df.data[r][c]
                    ELSE NaN]])

\* ------------------------------------------------ proportion aggregation
\* A threshold fraction n/d is the pair <<n, d>>; an optional argument is
\* the empty set (None) or the set holding its value.
DefaultMinFrac == <<1, 100>>

\* obs.groupby([ccf_label, taxonomy_level], observed=True).size()
PairCount(obs, level, r, c) ==
    Cardinality({i \in DOMAIN obs : obs[i].region = r /\ LevelLabel(obs[i], level) = c})

\* (counts_df <= min_count), or (counts_df.div(total, axis=0) <= min_frac)
BelowStrict(count, total, min_frac, min_count) ==
    IF min_count /= {}
    THEN count < (CHOOSE m \in min_count : TRUE)
    ELSE count * min_frac[2] < min_frac[1] * total

ToOther(count, total, min_frac, min_count) ==
    IF min_count /= {}
    THEN count <= (CHOOSE m \in min_count : TRUE)
    ELSE count * min_frac[2] <= min_frac[1] * total

\* counts_df[to_other].sum(axis=1)
NoOtherCol(counts, cats, r, total, min_frac, min_count) == 0

OtherCol(counts, cats, r, total, min_frac, min_count) ==
    SumOver(counts[r], {c \in cats : ToOther(counts[r][c], total, min_frac, min_count)})

calculate_level_proportions(obs, taxonomy_level, min_frac, min_count) ==
    LET regs   == GroupKeys(obs)
        cats   == SelectSeq(CategoryOrder,
                            LAMBDA c : \E i \in DOMAIN obs :
                                          LevelLabel(obs[i], taxonomy_level) = c)
        counts == [r \in Range(regs) |->
                     [c \in Range(cats) |-> PairCount(obs, taxonomy_level, r, c)]]
        total  == [r \in Range(regs) |-> SumOver(counts[r], Range(cats))]
        moved  == [r \in Range(regs) |->
                     OtherCol(counts, Range(cats), r, total[r], min_frac, min_count)]
        \* counts_df[~to_other], joined with 'other', nan filled with 0
        joined == [r \in Range(regs) |->
                     [c \in Range(cats) \cup {"other"} |->
                        IF c = "other" THEN moved[r]
                        ELSE IF ToOther(counts[r][c], total[r], min_frac, min_count)
                             THEN 0 ELSE counts[r][c]]]
        \* counts_df.loc[:, (counts_df != 0).any(axis=0)]
        cols   == SelectSeq(Append(cats, "other"),
                            LAMBDA c : \E r \in Range(regs) : joined[r][c] /= 0)
        rowsum == [r \in Range(regs) |-> SumOver(joined[r], Range(cols))]
    IN  Table(regs, cols,
              [r \in Range(regs) |->
                 [c \in Range(cols) |->
                    IF rowsum[r] = 0
                    THEN NaN
                    ELSE Num(joined[r][c], rowsum[r])]])

\* The spec's scenario: region A with cluster counts c1:5, c2:3, c3:2.
ScenarioA ==
    [i \in 1..10 |-> [region |-> "A",
                      cluster |-> IF i <= 5 THEN "c1" ELSE IF i <= 8 THEN "c2" ELSE "c3"]]

\* The scenario beside a region B that keeps c1 a column of its own.
ScenarioAB == ScenarioA \o << [region |-> "B", cluster |-> "c1"],
                              [region |-> "B", cluster |-> "c1"] >>

Scenarios == {ScenarioA, ScenarioAB}

\* ------------------------------------------------ local metric engine
\* A cell of the local engine: its three coordinates and its cluster.
Points == {<<0, 0, 0>>, <<1, 0, 0>>, <<0, 2, 2>>}

LocalRows == [xyz : Points, cluster : Clusters]

\* obs_ccf.index: the label of the cell at position i.
CellId(i) == 100 + i

\* The function argument: a statistic formula, or a caller's function that
\* raises on a sample holding cluster c3 and counts its c1 labels otherwise.
LocalFunctions == {"count_unique", "count_c1"}

ApplyFn(f, x) ==
    IF f = "count_c1"
    THEN IF "c3" \in Unique(x) THEN Raised("ValueError")
         ELSE Num(Cardinality({i \in DOMAIN x : x[i] = "c1"}), 1)
    ELSE Apply(f, x)

\* Squared euclidean distance of two coordinate triples.
Dist2(a, b) ==
    (a[1] - b[1]) * (a[1] - b[1]) + (a[2] - b[2]) * (a[2] - b[2])
        + (a[3] - b[3]) * (a[3] - b[3])

\* neigh.kneighbors(X, n_neighbors=k)[i]: k distinct positions in order of
\* distance from cell i, no cell left out nearer than the last one taken.
\* Which of several equally distant cells is taken, and in which order, is
\* the library's choice.
NeighborLists(obs, i, k) ==
    LET n == Len(obs)
        d(p) == Dist2(obs[i].xyz, obs[p].xyz)
    IN  {s \in [1..k -> 1..n] :
            /\ \A a, b \in 1..k : a < b => s[a] /= s[b] /\ d(s[a]) <= d(s[b])
            /\ \A p \in 1..n : (\A a \in 1..k : s[a] /= p) => d(p) >= d(s[k])}

RECURSIVE NeighborMatrices(_, _, _)
\* Every array kneighbors may return for the first m cells.
NeighborMatrices(obs, k, m) ==
    IF m = 0 THEN {<<>>}
    ELSE {Append(rest, s) : rest \in NeighborMatrices(obs, k, m - 1),
                            s \in NeighborLists(obs, m, k)}

\* obs.iloc[neighbors[i]][levels].aggregate(function): one value per level.
calculate_function_locally(i, obs, neighbors, levels, function) ==
    LET near == [j \in DOMAIN neighbors[i] |-> obs[neighbors[i][j]]]
    IN  [l \in Range(levels) |-> ApplyFn(function, Column(near, l))]

\* Whether the per-cell computation raises for cell i.
RaisesFor(i, obs, neighbors, levels, function) ==
    \E l \in Range(levels) :
        calculate_function_locally(i, obs, neighbors, levels, function)[l].kind = "error"

\* Pool.map's chunksize: divmod(len(iterable), len(pool) * 4), rounded up.
ChunkSize(n) ==
    IF n % (NWorkers * 4) = 0 THEN n \div (NWorkers * 4) ELSE n \div (NWorkers * 4) + 1

\* MapResult._number_left at the start.
NumChunks(n) ==
    IF n = 0 THEN 0
    ELSE IF n % ChunkSize(n) = 0 THEN n \div ChunkSize(n) ELSE n \div ChunkSize(n) + 1

\* The task positions (1-based) of chunk c.
ChunkItems(c, n) ==
    {i \in 1..n : (c - 1) * ChunkSize(n) < i /\ i <= c * ChunkSize(n)}

NoRow == [none |-> TRUE]

\* MapResult._set on success: self._value[i*chunksize:(i+1)*chunksize] = result
StoreInArrivalOrder(value, items, rows) ==
    LET free  == {i \in DOMAIN value : value[i] = NoRow}
        rank(i) == Cardinality({j \in items : j < i})
        slot(i) == CHOOSE q \in free : Cardinality({r \in free : r < q}) = rank(i)
    IN  [q \in DOMAIN value |->
            IF \E i \in items : slot(i) = q
            THEN rows[CHOOSE i \in items : slot(i) = q]
            ELSE value[q]]

StoreChunk(value, items, rows) ==
    [q \in DOMAIN value |-> IF q \in items THEN rows[q] ELSE value[q]]

\* MapResult._set on the first failure: self._success = False and
\* self._value = result, the exception taking the place of the list.
DropFailure(failure, value, e) == [failure |-> failure, value |-> value]

StoreFailure(failure, value, e) == [failure |-> e, value |-> Raised(e)]

\* "_".join(['local', metric_name, level]), kept as the triple.
LocalColName(metric_name, level) == <<"local", metric_name, level>>

\* pd.DataFrame.from_records(results, index=obs_ccf.index).rename(...): the
\* rows in list order under the input's index (a None left in the list
\* would be a row of nan).  data is by position here.
CellwiseTable(obs, results, metric_name, levels) ==
    Table([i \in DOMAIN obs |-> CellId(i)],
          [j \in DOMAIN levels |-> LocalColName(metric_name, levels[j])],
          [i \in DOMAIN results |->
              [c \in {LocalColName(metric_name, levels[j]) : j \in DOMAIN levels} |->
                  IF results[i] = NoRow THEN NaN ELSE results[i][c[3]]]])

\* ------------------------------------------------ stacked bar plot
\* A palette object: a dict from category to colour, a list of colours, or
\* None.  items is the dict's mapping or the list's sequence.
DictPalette(m) == [type |-> "dict", items |-> m]

NonePalette == [type |-> "None", items |-> <<>>]

\* colorcet's glasbey_light is a list of hex colour strings.
glasbey_light == [type |-> "list", items |-> <<"#d60000", "#8c3bff", "#018700">>]

\* The levels the atlas has a palette for.
AtlasLevels == {"cluster", "supertype", "subclass"}

\* A colour for every category.
AtlasColours == [c \in Range(CategoryOrder) |-> "atlas colour"]

\* abc.get_taxonomy_palette(level): a colour mapping for a level of the
\* atlas (a dict of its own for each call), ValueError for any other level.
get_taxonomy_palette(level) ==
    IF level \in AtlasLevels
    THEN [raised |-> "", palette |-> DictPalette(AtlasColours)]
    ELSE [raised |-> "ValueError", palette |-> NonePalette]

\* Lines 128-133: the palette the call works with.
ResolvePalette(arg, level) ==
    IF arg.type = "None"
    THEN IF get_taxonomy_palette(level).raised = "ValueError"
         THEN glasbey_light
         ELSE get_taxonomy_palette(level).palette
    ELSE arg

\* m with m[k] = v set (a dict's item assignment).
SetItem(m, k, v) == [x \in DOMAIN m \cup {k} |-> IF x = k THEN v ELSE m[x]]

\* Line 135, palette['other'] = 'lightgrey': on a dict it sets the entry in
\* that very object; a list takes no string index and raises TypeError.
AddOther(pal) ==
    IF pal.type = "dict"
    THEN [raised |-> "", palette |-> DictPalette(SetItem(pal.items, "other", "lightgrey")),
          used |-> DictPalette(SetItem(pal.items, "other", "lightgrey"))]
    ELSE [raised |-> "TypeError", palette |-> pal, used |-> pal]

Chart(regs, cols, labels, o) ==
    [error |-> "", regions |-> regs, columns |-> cols, annotations |-> labels,
     orientation |-> o]

NoFigure(e) ==
    [error |-> e, regions |-> <<>>, columns |-> <<>>, annotations |-> <<>>,
     orientation |-> ""]

NoChart == NoFigure("not called")

\* a/b < c/d for two "num" values.
LessNum(v, w) == v.num * w.den < w.num * v.den

\* sort_values(by=[nonzero_counts, inverse_simpsons], ascending): a stable
\* sort of the sequence regs by the pair of keys.
SortRegions(regs, nz, isi) ==
    LET less(a, b) == nz[a] < nz[b] \/ (nz[a] = nz[b] /\ LessNum(isi[a], isi[b]))
        before(i, j) == less(regs[i], regs[j])
                          \/ (~less(regs[j], regs[i]) /\ i < j)
        rank(i) == Cardinality({j \in DOMAIN regs : before(j, i)}) + 1
    IN  [q \in DOMAIN regs |-> regs[CHOOSE i \in DOMAIN regs : rank(i) = q]]

\* list(s) for a set s: its members once each, in the set's iteration
\* order, which for strings changes with the process's hash seed.
ListsOf(s) ==
    {l \in [1..Cardinality(s) -> s] : \A a, b \in DOMAIN l : a /= b => l[a] /= l[b]}

\* Lines 141-144: the index itself, or the regions asked for that are in
\* the index, as list(set(ccf_regions) & set(proportions_df.index)) gives them.
RegionsOfInterest(index, regions_arg) ==
    IF regions_arg = {} THEN {index}
    ELSE ListsOf((CHOOSE l \in regions_arg : TRUE) \cap Range(index))

\* Lines 146-149: the proportions, cut to those regions in that order and
\* to the columns that are not zero in all of them.
PlotTable(prop, regs) ==
    Table(regs,
          SelectSeq(prop.columns,
                    LAMBDA c : \E r \in Range(regs) : prop.data[r][c].num /= 0),
          prop.data)

\* (proportions_df.loc[region, columns != 'other'] != 0).sum()
NonZero(df, r) ==
    Cardinality({c \in Range(df.columns) \ {"other"} : df.data[r][c].num /= 0})

\* Lines 152-168: the order of the regions; KeyError when 'other' is no
\* column to drop, or a label is in no index.
RegionOrdering(df, level, metrics, ordered) ==
    LET icol == ColName("inverse_simpsons", level)
    IN  IF ordered = {}
        THEN IF \/ "other" \notin Range(df.columns)
                \/ icol \notin Range(metrics.columns)
                \/ ~(Range(df.index) \subseteq Range(metrics.index))
             THEN [raised |-> "KeyError", regions |-> <<>>]
             ELSE [raised |-> "",
                   regions |-> SortRegions(df.index,
                                  [r \in Range(df.index) |-> NonZero(df, r)],
                                  [r \in Range(df.index) |-> metrics.data[r][icol]])]
        ELSE IF Range(CHOOSE l \in ordered : TRUE) \subseteq Range(df.index)
             THEN [raised |-> "", regions |-> CHOOSE l \in ordered : TRUE]
             ELSE [raised |-> "KeyError", regions |-> <<>>]

\* Lines 170-215: the bars in order, and the text above each bar.
DrawChart(df, level, metrics, sorted, o) ==
    LET ccol == ColName("count", level)
    IN  IF \/ ccol \notin Range(metrics.columns)
           \/ ~(Range(sorted) \subseteq Range(metrics.index))
        THEN NoFigure("KeyError")
        ELSE Chart(sorted, df.columns,
                   [i \in DOMAIN sorted |->
                       IF o = "horizontal" THEN <<NonZero(df, sorted[i])>>
                       ELSE <<metrics.data[sorted[i]][ccol], NonZero(df, sorted[i])>>],
                   o)

\* ------------------------------------------------------------- state
VARIABLES
    sample,     \* the categorical sample a formula is called on
    stat,       \* the formula that was called, "none" before the call
    result,     \* what the formula returned or raised
    obs_ccf,    \* the observation table, a sequence of rows
    exclude,    \* the exclusion list handed to get_region_metric
    call,       \* the public function that was called, "none" before
    ret,        \* the table the call returned, or its failure
    taxonomy_level, \* the taxonomy column of the proportion and plot calls
    min_frac,   \* min_frac / min_cell_frac, a pair <<n, d>>
    min_count,  \* min_count / min_cell_count, {} for None
    cells,      \* the observation table of the local engine
    n_neighbors,\* its n_neighbors argument
    function,   \* its function argument
    lpc,        \* where calculate_local_diversity_metric stands
    neighbors,  \* the array kneighbors returned
    dispatched, \* chunks the pool has handed to workers
    running,    \* chunks a worker is computing
    value,      \* MapResult._value: the results by task position, or the
                \* exception once a chunk has failed
    failure,    \* "" while MapResult._success, else the first exception's type
    left,       \* MapResult._number_left
    arrived,    \* the chunks in the order their results reached the pool
    palette,    \* the caller's palette argument (the object itself)
    ccf_metrics,    \* the metrics table handed to the bar plot
    ccf_regions,    \* barplot_stacked_proportions' ccf_regions, {} for None
    ordered_regions,\* its ordered_regions, {} for None
    orientation,    \* its orientation
    fig         \* the chart it returned, or its failure

statsVars == <<sample, stat, result>>

tableVars == <<obs_ccf, exclude, call, ret>>

propVars == <<taxonomy_level, min_frac, min_count>>

localVars == <<cells, n_neighbors, function, lpc, neighbors, dispatched,
               running, value, failure, left, arrived>>

plotVars == <<palette, ccf_metrics, ccf_regions, ordered_regions, orientation, fig>>

vars == <<sample, stat, result, obs_ccf, exclude, call, ret,
          taxonomy_level, min_frac, min_count,
          cells, n_neighbors, function, lpc, neighbors, dispatched,
          running, value, failure, left, arrived,
          palette, ccf_metrics, ccf_regions, ordered_regions, orientation, fig>>

\* All sequences over S of length at most n.
RECURSIVE SeqsUpTo(_, _)
SeqsUpTo(S, n) ==
    IF n = 0 THEN {<<>>}
    ELSE LET shorter == SeqsUpTo(S, n - 1)
         IN  shorter \cup {Append(s, c) : s \in {t \in shorter : Len(t) = n - 1}, c \in S}

StatsIdle == sample = <<>> /\ stat = "idle" /\ result = NoValue

TablesIdle == obs_ccf = <<>> /\ exclude = {} /\ call = "idle" /\ ret = NoTable

LocalIdle ==
    /\ cells = <<>> /\ n_neighbors = 15 /\ function = "count_unique" /\ lpc = "idle"
    /\ neighbors = <<>> /\ dispatched = 0 /\ running = {} /\ value = <<>>
    /\ failure = "" /\ left = 0 /\ arrived = <<>>

PlotIdle ==
    /\ palette = NonePalette /\ ccf_metrics = NoTable
    /\ ccf_regions = {} /\ ordered_regions = {}
    /\ orientation = "vertical" /\ fig = NoChart

PropIdle == taxonomy_level = "cluster" /\ min_frac = DefaultMinFrac /\ min_count = {}

\* ------------------------------------------- statistic formulas: calls
StatsInit ==
    /\ sample \in SeqsUpTo(Clusters, MaxSample)
    /\ stat = "none"
    /\ result = NoValue
    /\ TablesIdle
    /\ PropIdle
    /\ LocalIdle
    /\ PlotIdle

CallCountUnique ==
    /\ stat = "none"
    /\ stat' = "count_unique"
    /\ result' = count_unique(sample)
    /\ UNCHANGED <<sample, tableVars, propVars, localVars, plotVars>>

CallCountUniqueNorm ==
    /\ stat = "none"
    /\ stat' = "count_unique_norm"
    /\ result' = count_unique_norm(sample)
    /\ UNCHANGED <<sample, tableVars, propVars, localVars, plotVars>>

CallCountGt5 ==
    /\ stat = "none"
    /\ stat' = "count_gt5"
    /\ result' = count_gt5(sample)
    /\ UNCHANGED <<sample, tableVars, propVars, localVars, plotVars>>

CallInverseSimpsonsIndex ==
    /\ stat = "none"
    /\ stat' = "inverse_simpsons_index"
    /\ result' = inverse_simpsons_index(sample)
    /\ UNCHANGED <<sample, tableVars, propVars, localVars, plotVars>>

CallShannonIndex ==
    /\ stat = "none"
    /\ stat' = "shannon_index"
    /\ result' = shannon_index(sample)
    /\ UNCHANGED <<sample, tableVars, propVars, localVars, plotVars>>

StatsNext ==
    \/ CallCountUnique
    \/ CallCountUniqueNorm
    \/ CallCountGt5
    \/ CallInverseSimpsonsIndex
    \/ CallShannonIndex

SpecStats == StatsInit /\ [][StatsNext]_vars

\* ------------------------------------------- region metric engine: calls
RegionInit ==
    /\ obs_ccf \in SeqsUpTo(Rows, MaxCells)
    /\ exclude \in {DefaultExclude, {}, {"A"}}
    /\ call = "none"
    /\ ret = NoTable
    /\ StatsIdle
    /\ PropIdle
    /\ LocalIdle
    /\ PlotIdle

CallGetRegionMetric ==
    /\ call = "none"
    /\ \E f \in Formulas, norm_fcn \in {{}, {"count_unique"}} :
          ret' = get_region_metric(obs_ccf, f, f, exclude, norm_fcn, DefaultLevels)
    /\ call' = "get_region_metric"
    /\ UNCHANGED <<obs_ccf, exclude, statsVars, propVars, localVars, plotVars>>

CallCalculateDiversityMetrics ==
    /\ call = "none"
    /\ ret' = calculate_diversity_metrics(obs_ccf)
    /\ call' = "calculate_diversity_metrics"
    /\ UNCHANGED <<obs_ccf, exclude, statsVars, propVars, localVars, plotVars>>

RegionNext ==
    \/ CallGetRegionMetric
    \/ CallCalculateDiversityMetrics

SpecRegion == RegionInit /\ [][RegionNext]_vars

\* ------------------------------------------- proportion aggregation: calls
\* The thresholds tried: min_frac alone (the default 0.01, 0, 1/3, 1/2), or
\* a min_count, which supersedes the (default) min_frac.
Thresholds ==
    {<<f, {}>> : f \in {DefaultMinFrac, <<0, 1>>, <<1, 3>>, <<1, 2>>}}
        \cup {<<DefaultMinFrac, {m}>> : m \in {0, 1}}

PropInit ==
    /\ obs_ccf \in (SeqsUpTo(Rows, MaxCells) \ {<<>>}) \cup Scenarios
    /\ taxonomy_level \in {"cluster", "supertype"}
    /\ \E t \in Thresholds : min_frac = t[1] /\ min_count = t[2]
    /\ exclude = {}
    /\ call = "none"
    /\ ret = NoTable
    /\ StatsIdle
    /\ LocalIdle
    /\ PlotIdle

CallCalculateLevelProportions ==
    /\ call = "none"
    /\ ret' = calculate_level_proportions(obs_ccf, taxonomy_level, min_frac, min_count)
    /\ call' = "calculate_level_proportions"
    /\ UNCHANGED <<obs_ccf, exclude, statsVars, propVars, localVars, plotVars>>

PropNext == CallCalculateLevelProportions

SpecProp == PropInit /\ [][PropNext]_vars

\* ------------------------------------------- local metric engine: steps
LocalInit ==
    /\ cells \in SeqsUpTo(LocalRows, MaxLocalCells)
    /\ n_neighbors \in 1..MaxNeighbors
    /\ function \in LocalFunctions
    /\ lpc = "start"
    /\ neighbors = <<>>
    /\ dispatched = 0
    /\ running = {}
    /\ value = <<>>
    /\ failure = ""
    /\ left = 0
    /\ arrived = <<>>
    /\ obs_ccf = <<>> /\ exclude = {} /\ call = "none" /\ ret = NoTable
    /\ StatsIdle
    /\ PropIdle
    /\ PlotIdle

\* Lines 151-157 raise when there are fewer cells than n_neighbors (none
\* included): NearestNeighbors refuses the fit or the query with ValueError.
FitRaises ==
    /\ lpc = "start"
    /\ n_neighbors > Len(cells)
    /\ lpc' = "returned"
    /\ call' = "calculate_local_diversity_metric"
    /\ ret' = Failure("ValueError")
    /\ UNCHANGED <<cells, n_neighbors, function, neighbors, dispatched, running,
                   value, failure, left, arrived, obs_ccf, exclude, statsVars,
                   propVars, plotVars>>

\* Lines 151-168: the neighbors are found and p.map queues one task per cell.
KNeighbors ==
    /\ lpc = "start"
    /\ n_neighbors <= Len(cells)
    /\ neighbors' \in NeighborMatrices(cells, n_neighbors, Len(cells))
    /\ value' = [i \in 1..Len(cells) |-> NoRow]
    /\ left' = NumChunks(Len(cells))
    /\ lpc' = "map"
    /\ UNCHANGED <<cells, n_neighbors, function, dispatched, running, failure,
                   arrived, obs_ccf, exclude, call, ret, statsVars, propVars,
                   plotVars>>

\* An idle worker takes the next chunk of the task queue.
WorkerTake ==
    /\ lpc = "map"
    /\ dispatched < NumChunks(Len(cells))
    /\ Cardinality(running) < NWorkers
    /\ dispatched' = dispatched + 1
    /\ running' = running \cup {dispatched + 1}
    /\ UNCHANGED <<cells, n_neighbors, function, lpc, neighbors, value, failure,
                   left, arrived, obs_ccf, exclude, call, ret, statsVars, propVars,
                   plotVars>>

\* A worker finishes its chunk; the result handler records what it sent.
WorkerFinish(c) ==
    LET items == ChunkItems(c, Len(cells))
        rows  == [i \in 1..Len(cells) |->
                    calculate_function_locally(i, cells, neighbors, DefaultLevels, function)]
        bad   == {i \in items : RaisesFor(i, cells, neighbors, DefaultLevels, function)}
    IN  /\ lpc = "map"
        /\ c \in running
        /\ running' = running \ {c}
        /\ left' = left - 1
        /\ arrived' = Append(arrived, c)
        /\ IF bad = {} /\ failure = ""
           THEN value' = StoreChunk(value, items, rows) /\ UNCHANGED failure
           ELSE IF bad /= {} /\ failure = ""
                THEN LET set == StoreFailure(failure, value, "ValueError")
                     IN  failure' = set.failure /\ value' = set.value
                ELSE UNCHANGED <<value, failure>>
        /\ UNCHANGED <<cells, n_neighbors, function, lpc, neighbors, dispatched,
                       obs_ccf, exclude, call, ret, statsVars, propVars, plotVars>>

\* Every chunk is in: p.map returns the list, or raises the stored
\* exception; lines 171-175 build the table.
MapReturn ==
    /\ lpc = "map"
    /\ left = 0
    /\ lpc' = "returned"
    /\ call' = "calculate_local_diversity_metric"
    /\ ret' = IF failure = ""
              THEN CellwiseTable(cells, value, function, DefaultLevels)
              ELSE Failure(value.err)
    /\ UNCHANGED <<cells, n_neighbors, function, neighbors, dispatched, running,
                   value, failure, left, arrived, obs_ccf, exclude, statsVars,
                   propVars, plotVars>>

LocalNext ==
    \/ FitRaises
    \/ KNeighbors
    \/ WorkerTake
    \/ \E c \in 1..MaxLocalCells : WorkerFinish(c)
    \/ MapReturn

SpecLocal == LocalInit /\ [][LocalNext]_vars

\* ------------------------------------------- stacked bar plot: calls
\* The palettes a caller passes: none, a dict of the categories, the same
\* with an 'other' entry of its own.
CallerPalettes ==
    {NonePalette, DictPalette(AtlasColours),
     DictPalette(SetItem(AtlasColours, "other", "lightgrey"))}

\* ccf_metrics is what the docstring asks for: the table
\* calculate_diversity_metrics makes from the same observations.
PlotInit ==
    /\ obs_ccf \in SeqsUpTo(Rows, MaxPlotCells) \ {<<>>}
    /\ ccf_metrics = calculate_diversity_metrics(obs_ccf)
    /\ ccf_metrics.error = ""
    /\ taxonomy_level \in {"cluster", "custom"}
    /\ palette \in CallerPalettes
    /\ \E t \in {<<DefaultMinFrac, {}>>, <<<<1, 2>>, {}>>, <<DefaultMinFrac, {1}>>} :
          min_frac = t[1] /\ min_count = t[2]
    /\ ccf_regions \in {{}, {{"A", "B"}}}
    /\ ordered_regions \in {{}, {<<"B", "A">>}}
    /\ orientation \in {"vertical", "horizontal"}
    /\ fig = NoChart
    /\ exclude = {}
    /\ call = "none"
    /\ ret = NoTable
    /\ StatsIdle
    /\ LocalIdle

\* Lines 127-135: the palette is chosen and given its 'other' entry.
BarplotSetPalette ==
    /\ call = "none"
    /\ LET set == AddOther(ResolvePalette(palette, taxonomy_level))
       IN  IF set.raised /= ""
           THEN /\ fig' = NoFigure(set.raised)
                /\ call' = "barplot_stacked_proportions"
                /\ UNCHANGED palette
           ELSE /\ palette' = IF palette.type = "None" THEN palette ELSE set.palette
                /\ call' = "barplot: palette set"
                /\ UNCHANGED fig
    /\ UNCHANGED <<obs_ccf, exclude, ret, statsVars, propVars, localVars,
                   ccf_metrics, ccf_regions, ordered_regions, orientation>>

\* Lines 137-149: proportions_df.
BarplotProportions ==
    /\ call = "barplot: palette set"
    /\ LET prop == calculate_level_proportions(obs_ccf, taxonomy_level, min_frac,
                                               min_count)
       IN  \E regs \in RegionsOfInterest(prop.index, ccf_regions) :
               ret' = PlotTable(prop, regs)
    /\ call' = "barplot: proportions"
    /\ UNCHANGED <<obs_ccf, exclude, statsVars, propVars, localVars, plotVars>>

\* Lines 151-215: the regions are ordered, the chart drawn and returned.
BarplotDraw ==
    /\ call = "barplot: proportions"
    /\ LET order == RegionOrdering(ret, taxonomy_level, ccf_metrics, ordered_regions)
       IN  fig' = IF order.raised /= "" THEN NoFigure(order.raised)
                  ELSE DrawChart(ret, taxonomy_level, ccf_metrics, order.regions,
                                 orientation)
    /\ call' = "barplot_stacked_proportions"
    /\ UNCHANGED <<obs_ccf, exclude, ret, statsVars, propVars, localVars,
                   palette, ccf_metrics, ccf_regions, ordered_regions, orientation>>

PlotNext ==
    \/ BarplotSetPalette
    \/ BarplotProportions
    \/ BarplotDraw

SpecPlot == PlotInit /\ [][PlotNext]_vars

\* =================================================================== claims

C2_RowsInInputOrder ==
    (lpc = "returned" /\ n_neighbors <= Len(cells)) =>
        LET n == Len(cells)
            anyRaise == \E i \in 1..n :
                           RaisesFor(i, cells, neighbors, DefaultLevels, function)
        IN  /\ (~anyRaise => ret.error = "")
            /\ (ret.error = "" =>
                  /\ Len(ret.index) = n
                  /\ \A i \in 1..n : ret.index[i] = CellId(i)
                  /\ DOMAIN ret.data = 1..n
                  /\ \A i \in 1..n : \A l \in Range(DefaultLevels) :
                        ret.data[i][LocalColName(function, l)] =
                           calculate_function_locally(i, cells, neighbors,
                                                      DefaultLevels, function)[l])

\* The second cell's result reached the pool before the first cell's, the
\* two results differ, and the table was returned.
C2_Witness ==
    /\ lpc = "returned"
    /\ ret.error = ""
    /\ arrived = <<2, 1>>
    /\ ret.data[1] /= ret.data[2]

\* ---- C3
\* C3: in the table calculate_level_proportions returns, every region row
\* sums to 1: each value is a count over the region's number of cells, that
\* number is positive and is kept when below-threshold counts move into
\* 'other'; and no column, 'other' included, is zero in every region.
C3_RowsSumToOne ==
    call = "calculate_level_proportions" =>
        /\ ret.error = ""
        /\ \A r \in Range(ret.index) :
              LET n == RegionCount(obs_ccf, r)
                  nums == [c \in Range(ret.columns) |-> ret.data[r][c].num]
              IN  /\ n > 0
                  /\ \A c \in Range(ret.columns) :
                        ret.data[r][c].kind = "num" /\ ret.data[r][c].den = n
                  /\ SumOver(nums, Range(ret.columns)) = n
        /\ \A c \in Range(ret.columns) :
              \E r \in Range(ret.index) : ret.data[r][c].num /= 0

\* A region all of whose counts moved into 'other', beside a region that
\* keeps a category of its own.
C3_Witness ==
    /\ call = "calculate_level_proportions"
    /\ Len(ret.index) = 2
    /\ "other" \in Range(ret.columns)
    /\ Len(ret.columns) >= 2
    /\ \E r \in Range(ret.index) : ret.data[r]["other"].num = ret.data[r]["other"].den
    /\ \E r \in Range(ret.index) : ret.data[r]["other"].num = 0

\* ---- C4
InScenario ==
    /\ call = "calculate_level_proportions"
    /\ obs_ccf \in Scenarios
    /\ taxonomy_level = "cluster"
    /\ min_count = {}
    /\ min_frac = <<1, 2>>

\* C4 as stated: with min_frac = 0.5 on counts {c1:5, c2:3, c3:2}, c1 stays
\* a column with 0.5 and 'other' is 0.5.
C4_Original ==
    InScenario =>
        /\ "c1" \in Range(ret.columns)
        /\ 2 * ret.data["A"]["c1"].num = ret.data["A"]["c1"].den
        /\ 2 * ret.data["A"]["other"].num = ret.data["A"]["other"].den

\* C4 (amended): with min_frac = 0.5 on counts {c1:5, c2:3, c3:2}, c1 (0.5 <=
\* 0.5) is collapsed as well: 'other' is 1.0 for the region, c2 and c3 are
\* no columns of their own, and c1 is 0 there where it remains a column.
C4_AllCollapse ==
    InScenario =>
        /\ ret.error = ""
        /\ "other" \in Range(ret.columns)
        /\ ret.data["A"]["other"] = Num(10, 10)
        /\ \A c \in Range(ret.columns) \ {"other"} : ret.data["A"][c] = Num(0, 10)
        /\ "c2" \notin Range(ret.columns)
        /\ "c3" \notin Range(ret.columns)
        /\ ("c1" \in Range(ret.columns) <=> obs_ccf = ScenarioAB)

C4_Witness ==
    /\ InScenario
    /\ obs_ccf = ScenarioAB
    /\ ret.data["A"]["c1"].num = 0
    /\ ret.data["A"]["other"].num = 10

\* ---- C5
\* C5: on a non-empty sample inverse_simpsons_index returns a value >= 1
\* (N^2 >= sum of c_i^2), and exactly 1 iff the sample holds one category.
C5_InverseSimpsonAtLeastOne ==
    (stat = "inverse_simpsons_index" /\ Len(sample) > 0) =>
        /\ result.kind = "num"
        /\ result.den > 0
        /\ result.num >= result.den
        /\ (result.num = result.den <=> Cardinality(Unique(sample)) = 1)

C5_Witness ==
    /\ stat = "inverse_simpsons_index"
    /\ Cardinality(Unique(sample)) = 3
    /\ result.kind = "num"
    /\ result.num > result.den

\* ---- C6
\* C6: on a non-empty sample with k distinct categories shannon_index
\* returns H with 0 <= H <= log2(k), H = log2(k) iff all categories occur
\* equally often; one category gives 0 (no error), and H is not rescaled to
\* 0..1 (three equally frequent categories give more than 1).
\* With result = log2(num/den)/N:  H >= 0 iff num >= den,  H <= log2(k) iff
\* num <= k^N * den,  H > 1 iff num > 2^N * den.
C6_ShannonBounds ==
    (stat = "shannon_index" /\ Len(sample) > 0) =>
        LET k    == Cardinality(Unique(sample))
            n    == Len(sample)
            vc   == ValueCounts(sample)
            even == \A a, b \in Unique(sample) : vc[a] = vc[b]
        IN  /\ result.kind = "log2"
            /\ result.scale = n
            /\ result.den > 0
            /\ result.num >= result.den
            /\ result.num <= Pow(k, n) * result.den
            /\ (result.num = Pow(k, n) * result.den <=> even)
            /\ (k = 1 => result.num = result.den)
            /\ (k = 3 /\ even => result.num > Pow(2, n) * result.den)

\* Three equally frequent categories: H = log2(3) > 1.
C6_Witness ==
    /\ stat = "shannon_index"
    /\ Len(sample) = 6
    /\ Cardinality(Unique(sample)) = 3
    /\ \A c \in Clusters : ValueCounts(sample)[c] = 2
    /\ result.num = Pow(3, 6) * result.den
    /\ result.num > Pow(2, 6) * result.den

\* ---- C7
\* C7 as stated: each of the five formulas ends in an error on an empty
\* sample.
C7_Original ==
    (stat \in Formulas /\ Len(sample) = 0) => result.kind = "error"

\* C7 (amended): on an empty sample only count_unique_norm ends in an error
\* (ZeroDivisionError); count_unique, count_gt5 and shannon_index return 0
\* and inverse_simpsons_index returns inf, none of them raising.
C7_EmptySample ==
    (stat \in Formulas /\ Len(sample) = 0) =>
        /\ (stat = "count_unique_norm" => result = Raised("ZeroDivisionError"))
        /\ (stat \in {"count_unique", "count_gt5", "shannon_index"} => result = Num(0, 1))
        /\ (stat = "inverse_simpsons_index" => result = Inf)

C7_Witness ==
    /\ stat = "count_unique_norm"
    /\ Len(sample) = 0
    /\ result.kind = "error"

\* ---- C8
\* C8: called without a palette for a level the palette provider rejects,
\* barplot_stacked_proportions catches the error, takes the fallback palette
\* with the gray 'other' entry, and goes on to the proportions and the chart
\* instead of ending in an error.
C8_FallbackThenChart ==
    (/\ call = "barplot_stacked_proportions"
     /\ palette.type = "None"
     /\ get_taxonomy_palette(taxonomy_level).raised = "ValueError")
        => fig.error = ""

\* ---- C9
\* C9: when the per-cell computation raises for some cell, the call ends in
\* an error and returns no table: no row is missing, defaulted or shifted.
C9_FailFast ==
    /\ (lpc /= "returned" => ret = NoTable)
    /\ (lpc = "returned" /\ n_neighbors <= Len(cells)
          /\ \E i \in 1..Len(cells) :
                RaisesFor(i, cells, neighbors, DefaultLevels, function))
          => (ret.error = "ValueError" /\ ret.index = <<>> /\ ret.data = <<>>)

\* The first cell's result was stored, then the second cell's computation
\* raised, the exception took the place of the stored results, and the call
\* ended in the error.
C9_Witness ==
    /\ lpc = "returned"
    /\ ret.error = "ValueError"
    /\ Len(cells) = 2
    /\ \E i \in 1..2 : RaisesFor(i, cells, neighbors, DefaultLevels, function)
    /\ \E i \in 1..2 : ~RaisesFor(i, cells, neighbors, DefaultLevels, function)
    /\ arrived = <<1, 2>>
    /\ RaisesFor(2, cells, neighbors, DefaultLevels, function)
    /\ value = Raised("ValueError")

\* ---- C10
\* C10: a public call leaves its inputs as they were: the observation
\* table, the metrics table, the exclusion and region lists and the palette
\* the caller passed hold the same contents after the call as before.
C10_InputsUnchanged ==
    [][/\ obs_ccf' = obs_ccf
       /\ exclude' = exclude
       /\ ccf_metrics' = ccf_metrics
       /\ ccf_regions' = ccf_regions
       /\ ordered_regions' = ordered_regions
       /\ palette' = palette]_vars

\* ---- C11
\* C11: for every cell i, the neighbourhood the statistic is applied to
\* (neighbors[i]) consists of exactly n_neighbors different cells of the
\* input table, no cell left out is nearer to cell i in the three coordinates
\* than one taken, and cell i itself is one of them, also when several cells
\* share the same coordinates.
C11_NeighborhoodNearestWithSelf ==
    (lpc \in {"map", "returned"} /\ n_neighbors <= Len(cells)) =>
        \A i \in 1..Len(cells) :
            LET near == Range(neighbors[i])
                d(p) == Dist2(cells[i].xyz, cells[p].xyz)
            IN  /\ Len(neighbors[i]) = n_neighbors
                /\ near \subseteq 1..Len(cells)
                /\ Cardinality(near) = n_neighbors
                /\ \A p \in (1..Len(cells)) \ near : \A q \in near : d(q) <= d(p)
                /\ i \in near

====
